---- MODULE Spec2Model ----
(***************************************************************************)
(* DreamHelper recommendation engine (src/engine/calculator.ts).            *)
(*                                                                         *)
(* Bubbles are JavaScript objects, so the model keeps an explicit heap:    *)
(* heap[r] is the object at reference r, and a BubbleState holds a          *)
(* sequence of references.  An engine function takes the heap and returns  *)
(* the heap after the call together with the state it returns.             *)
(*                                                                         *)
(* Numbers: type weights are kept in tenths (1.2 is 12), so a state value   *)
(* and a score are in tenths too.  A multiplier is a fraction <<num, den>>, *)
(* a chance is a percentage <<pct>>; <<>> is a missing (undefined) field.  *)
(***************************************************************************)
EXTENDS Integers, Sequences, FiniteSets, TLC

\* ---------------------------------------------------------------- bounds
MaxLen == 2
MaxCap == 4
MaxCount == 2
MaxTiers == 6
MaxCands == 3

\* ----------------------------------------------------------------- types
Undefined == "undefined"

qualities == <<"White", "Blue", "Purple", "Orange", "Red", "Rainbow">>

BubbleQuality == {qualities[i] : i \in 1..Len(qualities)}

BubbleType ==
  {"Gear", "Blacksail", "Cube", "Commodity", "Netherrealm", "Fluorescent",
   "Fuel", "Whim"}

DEFAULT_QUALITY_MULTIPLIERS ==
  [q \in BubbleQuality |->
     CASE q = "White" -> 1
       [] q = "Blue" -> 2
       [] q = "Purple" -> 4
       [] q = "Orange" -> 8
       [] q = "Red" -> 16
       [] q = "Rainbow" -> 32]

DEFAULT_TYPE_WEIGHTS == [t \in BubbleType |-> IF t = "Whim" THEN 12 ELSE 10]

\* qualities.indexOf(q), 0-based as in the source
indexOf(q) == (CHOOSE i \in 1..Len(qualities) : qualities[i] = q) - 1

Min2(a, b) == IF a <= b THEN a ELSE b

\* one record shape for every variant of EffectType; the fields a variant
\* does not have are Undefined / <<>>
Effect(ty, cnt, q, bt, tiers, nt, ua, mult, ch) ==
  [type |-> ty, count |-> cnt, quality |-> q, bubbleType |-> bt,
   tiers |-> tiers, newType |-> nt, upgradeAfter |-> ua,
   multiplier |-> mult, chance |-> ch, target |-> Undefined]

\* the optional target policy of a remove, upgrade or replicate effect
WithTarget(e, tg) == [e EXCEPT !.target = tg]

AddE(cnt, q, bt) == Effect("add", cnt, q, bt, 0, Undefined, FALSE, <<>>, <<>>)
RemoveE(n) == Effect("remove", <<n>>, Undefined, Undefined, 0, Undefined, FALSE, <<>>, <<>>)
UpgradeE(n, t) == Effect("upgrade", <<n>>, Undefined, Undefined, t, Undefined, FALSE, <<>>, <<>>)
ReplicateE(n) == Effect("replicate", <<n>>, Undefined, Undefined, 0, Undefined, FALSE, <<>>, <<>>)
ChangeTypeE(n, nt, ua) == Effect("changeType", <<n>>, Undefined, Undefined, 0, nt, ua, <<>>, <<>>)
MultiplyE(bt, mult) ==
  Effect("fundamental_multiplyOnEnterNightmare", <<0>>, Undefined, bt, 0, Undefined, FALSE, mult, <<>>)
ChanceE(bt, ch) ==
  Effect("fundamental_chanceUpgradeOnEnterNightmare", <<0>>, Undefined, bt, 0, Undefined, FALSE, <<>>, ch)
ReactiveE(ty) == Effect(ty, <<0>>, Undefined, Undefined, 0, Undefined, FALSE, <<>>, <<>>)
ComplexE == Effect("complex", <<0>>, Undefined, Undefined, 0, Undefined, FALSE, <<>>, <<>>)

\* an effect whose tag no case of the engine names
UnknownE == Effect("teleport", <<0>>, Undefined, Undefined, 0, Undefined, FALSE, <<>>, <<>>)

LotusEffect(id, e, f) == [id |-> id, effect |-> e, isFundamental |-> f]

\* the bubble objects of a state, read through the heap
Deref(h, refs) == [i \in 1..Len(refs) |-> h[refs[i]]]

\* --------------------------------------------------------------- engine

\* mutant: the new index wraps around instead of stopping at the last grade
upgradeQuality_wraps(current, tiers) ==
  qualities[((indexOf(current) + tiers) % Len(qualities)) + 1]

upgradeQuality(current, tiers) ==
  LET currentIndex == indexOf(current)
      newIndex == Min2(currentIndex + tiers, Len(qualities) - 1)
  IN qualities[newIndex + 1]

RECURSIVE HighestFrom(_, _, _)
HighestFrom(bs, i, highest) ==
  IF i > Len(bs) THEN highest
  ELSE HighestFrom(bs, i + 1,
         IF indexOf(bs[i].quality) > indexOf(highest) THEN bs[i].quality ELSE highest)

\* mutant: "blue_or_better" is resolved like "purple_or_better"
determineQuality_blueAsPurple(qualitySpec, h, state) ==
  IF qualitySpec = Undefined THEN "White"
  ELSE IF qualitySpec = "highest" THEN HighestFrom(Deref(h, state.bubbles), 1, "White")
  ELSE IF qualitySpec = "purple_or_better" THEN "Purple"
  ELSE IF qualitySpec = "blue_or_better" THEN "Purple"
  ELSE qualitySpec

determineQuality(qualitySpec, h, state) ==
  IF qualitySpec = Undefined THEN "White"
  ELSE IF qualitySpec = "highest" THEN HighestFrom(Deref(h, state.bubbles), 1, "White")
  ELSE IF qualitySpec = "purple_or_better" THEN "Purple"
  ELSE IF qualitySpec = "blue_or_better" THEN "Blue"
  ELSE qualitySpec

\* the for loop of handleAddEffect, from iteration i on
RECURSIVE AddLoop(_, _, _, _, _, _)
AddLoop(h, state, effect, i, actualAdd, now) ==
  IF i >= actualAdd THEN [heap |-> h, state |-> state]
  ELSE LET quality == determineQuality(effect.quality, h, state)
           type == IF effect.bubbleType = "random" \/ effect.bubbleType = Undefined
                   THEN "Whim" ELSE effect.bubbleType
           obj == [id |-> <<"bubble", now, i>>, type |-> type, quality |-> quality]
           h2 == Append(h, obj)
       IN AddLoop(h2, [state EXCEPT !.bubbles = Append(@, Len(h2))],
                  effect, i + 1, actualAdd, now)

\* mutant: the count is not clamped to the free slots
handleAddEffect_unclamped(h, state, effect, now) ==
  LET count == IF Len(effect.count) = 2
               THEN (effect.count[1] + effect.count[2]) \div 2
               ELSE effect.count[1]
  IN IF count <= 0 THEN [heap |-> h, state |-> state]
     ELSE AddLoop(h, state, effect, 0, count, now)

\* mutant: a range count resolves to its lower end instead of its mean
handleAddEffect_rangeLow(h, state, effect, now) ==
  LET count == effect.count[1]
      availableSlots == state.visionCapacity - Len(state.bubbles)
      actualAdd == Min2(count, availableSlots)
  IN IF actualAdd <= 0 THEN [heap |-> h, state |-> state]
     ELSE AddLoop(h, state, effect, 0, actualAdd, now)

handleAddEffect(h, state, effect, now) ==
  LET count == IF Len(effect.count) = 2
               THEN (effect.count[1] + effect.count[2]) \div 2
               ELSE effect.count[1]
      availableSlots == state.visionCapacity - Len(state.bubbles)
      actualAdd == Min2(count, availableSlots)
  IN IF actualAdd <= 0 THEN [heap |-> h, state |-> state]
     ELSE AddLoop(h, state, effect, 0, actualAdd, now)

\* mutant: target "lowest" removes bubbles from the end of the sequence
handleRemoveEffect_byTarget(h, state, effect) ==
  IF Len(state.bubbles) = 0 THEN [heap |-> h, state |-> state]
  ELSE LET count == Min2(effect.count[1], Len(state.bubbles))
       IN [heap |-> h,
           state |-> [state EXCEPT !.bubbles =
                        IF effect.target = "lowest" THEN SubSeq(@, 1, Len(@) - count)
                        ELSE SubSeq(@, count + 1, Len(@))]]

handleRemoveEffect(h, state, effect) ==
  IF Len(state.bubbles) = 0 THEN [heap |-> h, state |-> state]
  ELSE LET count == Min2(effect.count[1], Len(state.bubbles))
       IN [heap |-> h,
           state |-> [state EXCEPT !.bubbles = SubSeq(@, count + 1, Len(@))]]

RECURSIVE UpgradeLoop(_, _, _, _, _)
UpgradeLoop(h, state, effect, i, count) ==
  IF i >= count THEN [heap |-> h, state |-> state]
  ELSE LET r == state.bubbles[i + 1]
       IN UpgradeLoop([h EXCEPT ![r].quality = upgradeQuality(@, effect.tiers)],
                      state, effect, i + 1, count)

\* mutant: target "all" upgrades every bubble
handleUpgradeEffect_all(h, state, effect) ==
  IF Len(state.bubbles) = 0 THEN [heap |-> h, state |-> state]
  ELSE UpgradeLoop(h, state, effect, 0,
                   IF effect.target = "all" THEN Len(state.bubbles)
                   ELSE Min2(effect.count[1], Len(state.bubbles)))

handleUpgradeEffect(h, state, effect) ==
  IF Len(state.bubbles) = 0 THEN [heap |-> h, state |-> state]
  ELSE UpgradeLoop(h, state, effect, 0, Min2(effect.count[1], Len(state.bubbles)))

\* mutant: every copy is a copy of the first bubble
RECURSIVE ReplicateLoop_first(_, _, _, _, _)
ReplicateLoop_first(h, state, i, count, now) ==
  IF i >= count THEN [heap |-> h, state |-> state]
  ELSE LET original == h[state.bubbles[1]]
           h2 == Append(h, [original EXCEPT !.id = <<"bubble-replicate", now, i>>])
       IN ReplicateLoop_first(h2, [state EXCEPT !.bubbles = Append(@, Len(h2))],
                              i + 1, count, now)

RECURSIVE ReplicateLoop(_, _, _, _, _)
ReplicateLoop(h, state, i, count, now) ==
  IF i >= count THEN [heap |-> h, state |-> state]
  ELSE LET original == h[state.bubbles[i + 1]]
           h2 == Append(h, [original EXCEPT !.id = <<"bubble-replicate", now, i>>])
       IN ReplicateLoop(h2, [state EXCEPT !.bubbles = Append(@, Len(h2))],
                        i + 1, count, now)

\* mutant: the count is not clamped to the free slots
handleReplicateEffect_unclamped(h, state, effect, now) ==
  IF Len(state.bubbles) = 0 THEN [heap |-> h, state |-> state]
  ELSE ReplicateLoop(h, state, 0, Min2(effect.count[1], Len(state.bubbles)), now)

handleReplicateEffect(h, state, effect, now) ==
  IF Len(state.bubbles) = 0 THEN [heap |-> h, state |-> state]
  ELSE LET availableSlots == state.visionCapacity - Len(state.bubbles)
           count == Min2(Min2(effect.count[1], Len(state.bubbles)), availableSlots)
       IN ReplicateLoop(h, state, 0, count, now)

RECURSIVE ChangeTypeLoop(_, _, _, _, _)
ChangeTypeLoop(h, state, effect, i, count) ==
  IF i >= count THEN [heap |-> h, state |-> state]
  ELSE LET r == state.bubbles[i + 1]
           h1 == [h EXCEPT ![r].type = effect.newType]
           h2 == IF effect.upgradeAfter
                 THEN [h1 EXCEPT ![r].quality = upgradeQuality(@, 1)]
                 ELSE h1
       IN ChangeTypeLoop(h2, state, effect, i + 1, count)

\* mutant: every bubble is changed, whatever the count
handleChangeTypeEffect_all(h, state, effect) ==
  IF Len(state.bubbles) = 0 THEN [heap |-> h, state |-> state]
  ELSE ChangeTypeLoop(h, state, effect, 0, Len(state.bubbles))

handleChangeTypeEffect(h, state, effect) ==
  IF Len(state.bubbles) = 0 THEN [heap |-> h, state |-> state]
  ELSE ChangeTypeLoop(h, state, effect, 0, Min2(effect.count[1], Len(state.bubbles)))

\* mutant: a shallow copy, { ...currentState }, that shares the bubble objects
CloneState_shallow(h, currentState) == [heap |-> h, state |-> currentState]

\* { ...currentState, bubbles: [...currentState.bubbles.map((b) => ({ ...b }))] }
CloneState(h, currentState) ==
  LET n == Len(currentState.bubbles)
  IN [heap |-> h \o Deref(h, currentState.bubbles),
      state |-> [currentState EXCEPT !.bubbles = [i \in 1..n |-> Len(h) + i]]]

\* mutant: the default case attaches the lotus whatever its isFundamental flag
simulateLotusEffect_alwaysAttach(h, currentState, lotus, now) ==
  LET c == CloneState(h, currentState)
      effect == lotus.effect
  IN CASE effect.type = "add" -> handleAddEffect(c.heap, c.state, effect, now)
       [] effect.type = "remove" -> handleRemoveEffect(c.heap, c.state, effect)
       [] effect.type = "upgrade" -> handleUpgradeEffect(c.heap, c.state, effect)
       [] effect.type = "replicate" -> handleReplicateEffect(c.heap, c.state, effect, now)
       [] effect.type = "changeType" -> handleChangeTypeEffect(c.heap, c.state, effect)
       [] OTHER -> [heap |-> c.heap, state |-> [c.state EXCEPT !.fundamental = <<lotus>>]]

\* mutant: the default case keeps a fundamental that is already attached
simulateLotusEffect_firstWins(h, currentState, lotus, now) ==
  LET c == CloneState(h, currentState)
      effect == lotus.effect
  IN CASE effect.type = "add" -> handleAddEffect(c.heap, c.state, effect, now)
       [] effect.type = "remove" -> handleRemoveEffect(c.heap, c.state, effect)
       [] effect.type = "upgrade" -> handleUpgradeEffect(c.heap, c.state, effect)
       [] effect.type = "replicate" -> handleReplicateEffect(c.heap, c.state, effect, now)
       [] effect.type = "changeType" -> handleChangeTypeEffect(c.heap, c.state, effect)
       [] OTHER ->
            [heap |-> c.heap,
             state |-> IF lotus.isFundamental /\ c.state.fundamental = <<>>
                       THEN [c.state EXCEPT !.fundamental = <<lotus>>]
                       ELSE c.state]

simulateLotusEffect(h, currentState, lotus, now) ==
  LET c == CloneState(h, currentState)
      effect == lotus.effect
  IN CASE effect.type = "add" -> handleAddEffect(c.heap, c.state, effect, now)
       [] effect.type = "remove" -> handleRemoveEffect(c.heap, c.state, effect)
       [] effect.type = "upgrade" -> handleUpgradeEffect(c.heap, c.state, effect)
       [] effect.type = "replicate" -> handleReplicateEffect(c.heap, c.state, effect, now)
       [] effect.type = "changeType" -> handleChangeTypeEffect(c.heap, c.state, effect)
       [] OTHER ->
            [heap |-> c.heap,
             state |-> IF lotus.isFundamental
                       THEN [c.state EXCEPT !.fundamental = <<lotus>>]
                       ELSE c.state]


\* effect.multiplier || 0.33 : a missing or zero multiplier is falsy
MultiplierOrDefault(m) == IF m = <<>> \/ m[1] = 0 THEN <<33, 100>> ELSE m

\* effect.chance || 0.45
ChanceOrDefault(c) == IF c = <<>> \/ c[1] = 0 THEN <<45>> ELSE c

\* mutant: the bubbleType filter is ignored
targetBubbles_all(h, refs, bubbleType) == refs

\* the references b of refs with h[b].type = bubbleType (Array.filter); all of
\* them when the effect has no bubbleType
targetBubbles(h, refs, bubbleType) ==
  IF bubbleType = Undefined THEN refs
  ELSE SelectSeq(refs, LAMBDA r : h[r].type = bubbleType)

\* mutant: the bonus bubbles ignore the effect's bubbleType
RECURSIVE BonusLoop_alwaysWhim(_, _, _, _, _, _)
BonusLoop_alwaysWhim(h, state, effect, i, toAdd, now) ==
  IF i >= toAdd THEN [heap |-> h, state |-> state]
  ELSE LET obj == [id |-> <<"fundamental-bonus", now, i>>, type |-> "Whim",
                   quality |-> "Red"]
           h2 == Append(h, obj)
       IN BonusLoop_alwaysWhim(h2, [state EXCEPT !.bubbles = Append(@, Len(h2))],
                               effect, i + 1, toAdd, now)

RECURSIVE BonusLoop(_, _, _, _, _, _)
BonusLoop(h, state, effect, i, toAdd, now) ==
  IF i >= toAdd THEN [heap |-> h, state |-> state]
  ELSE LET obj == [id |-> <<"fundamental-bonus", now, i>>,
                   type |-> IF effect.bubbleType = Undefined THEN "Whim"
                            ELSE effect.bubbleType,
                   quality |-> "Red"]
           h2 == Append(h, obj)
       IN BonusLoop(h2, [state EXCEPT !.bubbles = Append(@, Len(h2))],
                    effect, i + 1, toAdd, now)

RECURSIVE UpgradeEach(_, _, _)
UpgradeEach(h, refs, i) ==
  IF i > Len(refs) THEN h
  ELSE UpgradeEach([h EXCEPT ![refs[i]].quality = upgradeQuality(@, 1)], refs, i + 1)

\* random is the value of Math.random() in hundredths, 0 <= random < 100
applyFundamentalEffects(h, state, random, now) ==
  IF state.fundamental = <<>> THEN [heap |-> h, state |-> state]
  ELSE
    LET effect == state.fundamental[1].effect
    IN CASE effect.type = "fundamental_multiplyOnEnterNightmare" ->
              LET tb == targetBubbles(h, state.bubbles, effect.bubbleType)
                  multiplier == MultiplierOrDefault(effect.multiplier)
                  toAdd == (Len(tb) * multiplier[1]) \div multiplier[2]
              IN BonusLoop(h, state, effect, 0, toAdd, now)
         [] effect.type = "fundamental_chanceUpgradeOnEnterNightmare" ->
              LET chance == ChanceOrDefault(effect.chance)
                  tb == targetBubbles(h, state.bubbles, effect.bubbleType)
              IN IF random < chance[1]
                 THEN [heap |-> UpgradeEach(h, tb, 1), state |-> state]
                 ELSE [heap |-> h, state |-> state]
         [] OTHER -> [heap |-> h, state |-> state]

\* mutant: quality value and type weight are added, not multiplied
RECURSIVE SumValue_additive(_, _, _)
SumValue_additive(bs, weights, i) ==
  IF i > Len(bs) THEN 0
  ELSE SumValue_additive(bs, weights, i + 1)
       + weights.qualityMultipliers[bs[i].quality] + weights.typeWeights[bs[i].type]

RECURSIVE SumValue(_, _, _)
SumValue(bs, weights, i) ==
  IF i > Len(bs) THEN 0
  ELSE SumValue(bs, weights, i + 1)
       + weights.qualityMultipliers[bs[i].quality] * weights.typeWeights[bs[i].type]

calculateStateValue(h, state, weights) == SumValue(Deref(h, state.bubbles), weights, 1)

\* mutant: the value of the current state is not subtracted
scoreLotusChoice_noBaseline(h, currentState, lotus, weights, random, now) ==
  LET sim == simulateLotusEffect(h, currentState, lotus, now)
      fin == applyFundamentalEffects(sim.heap, sim.state, random, now)
      newValue == calculateStateValue(fin.heap, fin.state, weights)
  IN [heap |-> fin.heap, state |-> fin.state, score |-> newValue,
      produced |-> <<Deref(sim.heap, sim.state.bubbles),
                     Deref(fin.heap, fin.state.bubbles)>>]

\* mutant: the fundamental effects are not applied before the new value is taken
scoreLotusChoice_noFundamental(h, currentState, lotus, weights, random, now) ==
  LET currentValue == calculateStateValue(h, currentState, weights)
      sim == simulateLotusEffect(h, currentState, lotus, now)
      newValue == calculateStateValue(sim.heap, sim.state, weights)
  IN [heap |-> sim.heap, state |-> sim.state, score |-> newValue - currentValue,
      produced |-> <<Deref(sim.heap, sim.state.bubbles),
                     Deref(sim.heap, sim.state.bubbles)>>]

\* produced lists the bubbles of every state the call builds, in order
scoreLotusChoice(h, currentState, lotus, weights, random, now) ==
  LET currentValue == calculateStateValue(h, currentState, weights)
      sim == simulateLotusEffect(h, currentState, lotus, now)
      fin == applyFundamentalEffects(sim.heap, sim.state, random, now)
      newValue == calculateStateValue(fin.heap, fin.state, weights)
  IN [heap |-> fin.heap, state |-> fin.state, score |-> newValue - currentValue,
      produced |-> <<Deref(sim.heap, sim.state.bubbles),
                     Deref(fin.heap, fin.state.bubbles)>>]


\* mutant: the comparator sorts ascending
compare_ascending(a, b) == a.score - b.score

\* the comparator of rankLotusChoices: (a, b) => b.score - a.score
compare(a, b) == b.score - a.score

\* mutant: an unstable sort, e goes before the elements it ties with
RECURSIVE InsertSorted_unstable(_, _)
InsertSorted_unstable(s, e) ==
  IF s = <<>> THEN <<e>>
  ELSE IF compare(Head(s), e) < 0 THEN <<Head(s)>> \o InsertSorted_unstable(Tail(s), e)
  ELSE <<e>> \o s

\* Array.prototype.sort is stable (ES2019): e goes after every element that
\* the comparator does not put behind it
RECURSIVE InsertSorted(_, _)
InsertSorted(s, e) ==
  IF s = <<>> THEN <<e>>
  ELSE IF compare(Head(s), e) <= 0 THEN <<Head(s)>> \o InsertSorted(Tail(s), e)
  ELSE <<e>> \o s

RECURSIVE sort(_)
sort(s) == IF s = <<>> THEN <<>> ELSE InsertSorted(sort(SubSeq(s, 1, Len(s) - 1)), s[Len(s)])

\* Array.prototype.slice(0, end) for end >= 0
slice(s, end) == SubSeq(s, 1, Min2(end, Len(s)))

\* availableLotuses.map(...): entry pos is the identity of the entry object,
\* the position of the candidate it was made from
RECURSIVE MapScored(_, _, _, _, _, _, _, _)
MapScored(h, currentState, availableLotuses, weights, randoms, now, i, acc) ==
  IF i > Len(availableLotuses) THEN [heap |-> h, scored |-> acc]
  ELSE LET lotus == availableLotuses[i]
           sc == scoreLotusChoice(h, currentState, lotus, weights, randoms[i], now)
           sim == simulateLotusEffect(sc.heap, currentState, lotus, now)
       IN MapScored(sim.heap, currentState, availableLotuses, weights, randoms, now,
                    i + 1,
                    Append(acc, [lotus |-> lotus, score |-> sc.score,
                                 simulatedState |-> sim.state, pos |-> i]))

rankLotusChoices(h, currentState, availableLotuses, weights, topN, randoms, now) ==
  LET m == MapScored(h, currentState, availableLotuses, weights, randoms, now, 1, <<>>)
  IN [heap |-> m.heap, scored |-> m.scored, ranked |-> slice(sort(m.scored), topN)]

\* ------------------------------------------------------ lookahead ranker
\* scores are tenths; a lookaheadScore is a fraction <<numerator, 60>>, so
\* that 0.7 times the mean of one, two or three scores is exact

\* how many entries of the inner ranking are averaged
InnerTop == 3

RECURSIVE SumScores(_, _)
SumScores(entries, i) ==
  IF i > Len(entries) THEN 0 ELSE entries[i].score + SumScores(entries, i + 1)

\* 0.7 times the mean score of the entries of the inner ranking, in sixtieths
\* of a tenth
DiscountedMean(inner) ==
  IF Len(inner) = 0 THEN 0 ELSE (42 * SumScores(inner, 1)) \div Len(inner)

\* the ranking made again from state, without draws
InnerRanking(h, state, lotuses, weights, now) ==
  rankLotusChoices(h, state, lotuses, weights, InnerTop,
                   [i \in 1..Len(lotuses) |-> 0], now).ranked

\* mutant: the second ply runs whatever the depth
futureValue_ungated(h, state, lotuses, weights, d, now) ==
  DiscountedMean(InnerRanking(h, state, lotuses, weights, now))

\* the future value of state; 0 unless the depth asks for a ply
futureValue(h, state, lotuses, weights, d, now) ==
  IF d <= 1 THEN 0
  ELSE DiscountedMean(InnerRanking(h, state, lotuses, weights, now))

\* the entry of a candidate whose scoring returned sc: its score, and its
\* score plus the future value of the state it leads to
EntryFrom(sc, lotuses, weights, d, now, i) ==
  [lotus |-> lotuses[i], score |-> sc.score, pos |-> i,
   lookaheadScore |->
     <<60 * sc.score + futureValue(sc.heap, sc.state, lotuses, weights, d, now), 60>>]

LookaheadEntry(h, currentState, lotuses, weights, d, randoms, now, i) ==
  EntryFrom(scoreLotusChoice(h, currentState, lotuses[i], weights, randoms[i], now),
            lotuses, weights, d, now, i)

compareLookahead(a, b) == b.lookaheadScore[1] - a.lookaheadScore[1]

RECURSIVE InsertLookahead(_, _)
InsertLookahead(s, e) ==
  IF s = <<>> THEN <<e>>
  ELSE IF compareLookahead(Head(s), e) <= 0 THEN <<Head(s)>> \o InsertLookahead(Tail(s), e)
  ELSE <<e>> \o s

RECURSIVE sortLookahead(_)
sortLookahead(s) ==
  IF s = <<>> THEN <<>>
  ELSE InsertLookahead(sortLookahead(SubSeq(s, 1, Len(s) - 1)), s[Len(s)])

rankLotusChoicesWithLookahead(h, currentState, lotuses, weights, topN, d, randoms, now) ==
  slice(sortLookahead([i \in 1..Len(lotuses) |->
                         LookaheadEntry(h, currentState, lotuses, weights, d, randoms, now, i)]),
        topN)

\* ------------------------------------------------------- inputs of a call

InputTypes == {"Gear", "Whim"}
InputQualities == {"White", "Red"}
InputKinds == {[type |-> t, quality |-> q] : t \in InputTypes, q \in InputQualities}

BubblesUpTo(n) == UNION {[1..k -> InputKinds] : k \in 0..n}

Fundamentals ==
  {LotusEffect("f-multiply-gear", MultiplyE("Gear", <<1, 3>>), TRUE),
   LotusEffect("f-multiply-any", MultiplyE(Undefined, <<1, 2>>), TRUE),
   LotusEffect("f-chance-gear", ChanceE("Gear", <<45>>), TRUE),
   LotusEffect("f-chance-any", ChanceE(Undefined, <<100>>), TRUE),
   LotusEffect("f-reactive", ReactiveE("fundamental_bonusOnAddRemove"), TRUE)}

FundamentalOptions == {<<>>} \cup {<<f>> : f \in Fundamentals}

AddCounts == {<<c>> : c \in 0..MaxCount} \cup {<<1, MaxCount + 1>>}

TierValues == 0..MaxTiers \cup {100}

AddEffects ==
  {AddE(c, q, Undefined) : c \in AddCounts,
                           q \in {Undefined, "highest", "purple_or_better", "blue_or_better", "Orange"}}
  \cup {AddE(c, Undefined, bt) : c \in AddCounts, bt \in {"random", "Cube"}}

ReplicateEffects == {ReplicateE(n) : n \in 0..MaxCount}

StructuralEffects ==
  AddEffects \cup ReplicateEffects
  \cup {RemoveE(n) : n \in 0..MaxCount}
  \cup {UpgradeE(n, t) : n \in 1..MaxCount, t \in TierValues}
  \cup {ChangeTypeE(n, "Fuel", ua) : n \in 1..MaxCount, ua \in BOOLEAN}
  \cup {WithTarget(RemoveE(1), tg) : tg \in {"random", "lowest", "highest"}}
  \cup {WithTarget(UpgradeE(1, 1), tg) : tg \in {"random", "all"}}
  \cup {WithTarget(ReplicateE(1), tg) : tg \in {"random", "Gear"}}

StandingEffects ==
  {MultiplyE(bt, m) : bt \in {Undefined, "Gear"}, m \in {<<>>, <<1, 3>>, <<0, 1>>}}
  \cup {ChanceE(bt, c) : bt \in {Undefined, "Gear"}, c \in {<<>>, <<0>>, <<100>>}}
  \cup {ReactiveE(ty) : ty \in {"fundamental_bonusOnQualityChange",
                                "fundamental_bonusOnTypeChange",
                                "fundamental_bonusOnAddRemove"}}
  \cup {ComplexE}

\* the lotuses handed to simulateLotusEffect
Lotuses ==
  {LotusEffect("l", e, FALSE) : e \in StructuralEffects \cup {ComplexE}}
  \cup {LotusEffect("lf", e, TRUE) : e \in StandingEffects}
  \cup {LotusEffect("lf", AddE(<<1>>, Undefined, Undefined), TRUE),
        LotusEffect("lf", UpgradeE(1, 1), TRUE)}
  \cup {LotusEffect("l", e, FALSE) :
          e \in {MultiplyE("Gear", <<1, 3>>), ReactiveE("fundamental_bonusOnAddRemove"),
                 UnknownE}}
  \cup {LotusEffect("lf", UnknownE, TRUE)}

\* the lotuses handed to scoreLotusChoice
ScoreLotuses ==
  {LotusEffect("l", e, FALSE) :
     e \in {AddE(<<1>>, Undefined, Undefined), AddE(<<1, MaxCount + 1>>, "highest", Undefined),
            AddE(<<MaxCount>>, Undefined, "Gear"),
            RemoveE(1), UpgradeE(1, 1), UpgradeE(MaxCount, 100), ReplicateE(MaxCount),
            ChangeTypeE(1, "Fuel", TRUE), ComplexE}}
  \cup {LotusEffect("lf", e, TRUE) :
          e \in {MultiplyE("Gear", <<1, 3>>), ChanceE(Undefined, <<100>>), ComplexE}}

DefaultWeights ==
  [qualityMultipliers |-> DEFAULT_QUALITY_MULTIPLIERS,
   typeWeights |-> DEFAULT_TYPE_WEIGHTS,
   riskTolerance |-> 5]

\* user-edited tables: one with zero entries, one with a negative entry
ZeroWeights ==
  [qualityMultipliers |-> [DEFAULT_QUALITY_MULTIPLIERS EXCEPT !["White"] = 0],
   typeWeights |-> [DEFAULT_TYPE_WEIGHTS EXCEPT !["Gear"] = 0],
   riskTolerance |-> 5]

NegativeWeights ==
  [qualityMultipliers |-> DEFAULT_QUALITY_MULTIPLIERS,
   typeWeights |-> [DEFAULT_TYPE_WEIGHTS EXCEPT !["Gear"] = -10],
   riskTolerance |-> 5]

WeightTables == {DefaultWeights, ZeroWeights, NegativeWeights}

\* values of Math.random(), in hundredths
RandomDraws == {0, 44, 45, 99}

StructuralTypes == {"add", "remove", "upgrade", "replicate", "changeType"}

\* the fundamental of the state simulateLotusEffect returns
AttachedAfter(state, l) ==
  IF l.effect.type \notin StructuralTypes /\ l.isFundamental THEN <<l>>
  ELSE state.fundamental

\* Math.random() is called only by the chance-upgrade case
DrawsFor(state, l, draws) ==
  LET f == AttachedAfter(state, l)
  IN IF f # <<>> /\ f[1].effect.type = "fundamental_chanceUpgradeOnEnterNightmare"
     THEN draws ELSE {0}

\* ---------------------------------------------------------------- state

VARIABLES
  heap,          \* the bubble objects
  currentState,  \* the BubbleState handed to the engine
  clock,         \* Date.now()
  pc,            \* "ready", or the engine function that has returned
  before,        \* the bubbles of currentState when the call was made
  lotus,         \* <<lotus>> argument of simulate / score
  weights,       \* <<weights>> argument
  result,        \* <<state>> returned by simulate, or left by score
  score,         \* number returned by scoreLotusChoice
  produced,      \* states built during scoreLotusChoice
  candidates,    \* availableLotuses argument of rankLotusChoices
  topN,          \* topN argument
  scored,        \* the array built by map, before sort
  ranked,        \* the array returned by rankLotusChoices
  value,         \* number returned by calculateStateValue
  extra,         \* <<bubble>> appended for the second evaluation, and its value
  bubbleState,   \* the BubbleState the App holds (useState)
  currentChoices, \* the lotuses the App compares (useState)
  depth,         \* depth argument of the lookahead ranker
  lookahead,     \* the array returned by the lookahead ranker
  importError,   \* the import error the App shows (useState)
  input          \* <<what prompt() returned to importRun>>, until the next event

vars == <<heap, currentState, clock, pc, before, lotus, weights, result, score,
          produced, candidates, topN, scored, ranked, value, extra,
          bubbleState, currentChoices, depth, lookahead, importError, input>>

\* the capacity of a new run
DefaultCapacity == 10

\* the BubbleState of a new run
FreshState == [bubbles |-> <<>>, visionCapacity |-> DefaultCapacity, fundamental |-> <<>>]

NoCall ==
  /\ pc = "ready"
  /\ lotus = <<>> /\ weights = <<>> /\ result = <<>> /\ score = 0
  /\ produced = <<>> /\ candidates = <<>> /\ topN = 0 /\ scored = <<>>
  /\ ranked = <<>> /\ value = 0 /\ extra = <<>>
  /\ bubbleState = FreshState /\ currentChoices = <<>>
  /\ depth = 0 /\ lookahead = <<>>
  /\ importError = "" /\ input = <<>>

InputState(ks, cap, f) ==
  /\ heap = [i \in 1..Len(ks) |->
               [id |-> <<"bubble", 0, i>>, type |-> ks[i].type, quality |-> ks[i].quality]]
  /\ currentState = [bubbles |-> [i \in 1..Len(ks) |-> i],
                     visionCapacity |-> cap, fundamental |-> f]
  /\ before = heap
  /\ clock = 1

Init ==
  /\ \E ks \in BubblesUpTo(MaxLen), cap \in 0..MaxCap, f \in FundamentalOptions :
       InputState(ks, cap, f)
  /\ NoCall

Simulate ==
  /\ pc = "ready"
  /\ \E l \in Lotuses :
       \E r \in {simulateLotusEffect(heap, currentState, l, clock)} :
          /\ heap' = r.heap
          /\ result' = <<r.state>>
          /\ lotus' = <<l>>
  /\ pc' = "simulate"
  /\ UNCHANGED <<currentState, clock, before, weights, score, produced, candidates,
                 topN, scored, ranked, value, extra,
                 bubbleState, currentChoices, depth, lookahead, importError, input>>

Score ==
  /\ pc = "ready"
  /\ \E l \in ScoreLotuses, w \in WeightTables :
     \E random \in DrawsFor(currentState, l, RandomDraws) :
       \E r \in {scoreLotusChoice(heap, currentState, l, w, random, clock)} :
          /\ heap' = r.heap
          /\ result' = <<r.state>>
          /\ score' = r.score
          /\ produced' = r.produced
          /\ lotus' = <<l>>
          /\ weights' = <<w>>
  /\ pc' = "score"
  /\ UNCHANGED <<currentState, clock, before, candidates, topN, scored, ranked,
                 value, extra,
                 bubbleState, currentChoices, depth, lookahead, importError, input>>

\* calculateStateValue of the state, and of the state with one more bubble
Evaluate ==
  /\ pc = "ready"
  /\ \E w \in WeightTables, t \in BubbleType, q \in BubbleQuality :
       LET b == [id |-> <<"bubble", clock, 0>>, type |-> t, quality |-> q]
           h2 == Append(heap, b)
           s2 == [currentState EXCEPT !.bubbles = Append(@, Len(h2))]
       IN /\ value' = calculateStateValue(heap, currentState, w)
          /\ extra' = <<b, calculateStateValue(h2, s2, w)>>
          /\ weights' = <<w>>
  /\ pc' = "value"
  /\ UNCHANGED <<heap, currentState, clock, before, lotus, result, score, produced,
                 candidates, topN, scored, ranked,
                 bubbleState, currentChoices, depth, lookahead, importError, input>>

Next == Simulate \/ Score

Spec == Init /\ [][Next]_vars

\* --------------------------------------------- value-function specification

InitValue ==
  /\ \E ks \in BubblesUpTo(MaxLen) : InputState(ks, MaxCap, <<>>)
  /\ NoCall

NextValue == Evaluate

SpecValue == InitValue /\ [][NextValue]_vars

\* ------------------------------------------------ ranking specification

GearWhite == [type |-> "Gear", quality |-> "White"]
WhimRed == [type |-> "Whim", quality |-> "Red"]

\* the bubbles of the states that are ranked from
RankInputs == {<<>>, <<GearWhite>>, <<WhimRed, GearWhite>>, <<GearWhite, GearWhite, WhimRed>>}

RankLotuses ==
  {LotusEffect("add-1", AddE(<<1>>, Undefined, Undefined), FALSE),
   LotusEffect("upgrade-1", UpgradeE(1, 1), FALSE),
   LotusEffect("complex", ComplexE, FALSE)}

RankDraws == {0, 99}

RankFundamentals ==
  {<<>>, <<LotusEffect("f-chance-any", ChanceE(Undefined, <<45>>), TRUE)>>,
   <<LotusEffect("f-multiply-any", MultiplyE(Undefined, <<1, 3>>), TRUE)>>}

InitRank ==
  /\ \E ks \in RankInputs, free \in 0..1, f \in RankFundamentals :
       InputState(ks, Len(ks) + free, f)
  /\ NoCall

Rank ==
  /\ pc = "ready"
  /\ \E n \in 0..MaxCands :
       \E cs \in [1..n -> RankLotuses], w \in {DefaultWeights, ZeroWeights},
          N \in 0..(MaxCands + 1) :
        \E randoms \in {f \in [1..n -> RankDraws] :
                          \A i \in 1..n : f[i] \in DrawsFor(currentState, cs[i], RankDraws)} :
         \E r \in {rankLotusChoices(heap, currentState, cs, w, N, randoms, clock)} :
            /\ heap' = r.heap
            /\ scored' = r.scored
            /\ ranked' = r.ranked
            /\ candidates' = cs
            /\ topN' = N
            /\ weights' = <<w>>
  /\ pc' = "rank"
  /\ UNCHANGED <<currentState, clock, before, lotus, result, score, produced,
                 value, extra,
                 bubbleState, currentChoices, depth, lookahead, importError, input>>

NextRank == Rank

SpecRank == InitRank /\ [][NextRank]_vars

\* -------------------------------------------------- lookahead specification

\* the depths the lookahead ranker is called with
MaxDepth == 2

LookFundamentals ==
  RankFundamentals
  \cup {<<LotusEffect("f-chance-sure", ChanceE(Undefined, <<100>>), TRUE)>>,
        <<LotusEffect("f-multiply-gear", MultiplyE("Gear", <<1, 3>>), TRUE)>>}

\* the candidate lists both rankers are called with
LookCandidates ==
  LET add == LotusEffect("add-1", AddE(<<1>>, Undefined, Undefined), FALSE)
      upgrade == LotusEffect("upgrade-1", UpgradeE(1, 1), FALSE)
      complex == LotusEffect("complex", ComplexE, FALSE)
  IN {<<>>, <<add>>, <<complex, add>>, <<add, upgrade, complex>>,
      <<complex, upgrade, add>>, <<upgrade, upgrade, add>>,
      <<complex, add, upgrade, add>>}

\* the attached fundamental can fail to upgrade
Uncertain(state) ==
  /\ state.fundamental # <<>>
  /\ state.fundamental[1].effect.type = "fundamental_chanceUpgradeOnEnterNightmare"
  /\ state.fundamental[1].effect.chance # <<100>>

InitLook ==
  /\ \E ks \in RankInputs, free \in 0..1, f \in LookFundamentals :
       InputState(ks, Len(ks) + free, f)
  /\ NoCall

\* both rankers called with the same arguments and the same draws; the second
\* ply is taken from states whose fundamental is certain
Lookahead ==
  /\ pc = "ready"
  /\ \E cs \in LookCandidates, w \in {DefaultWeights, ZeroWeights},
        N \in 0..(MaxCands + 1),
        d \in 1..(IF Uncertain(currentState) THEN 1 ELSE MaxDepth) :
        \E randoms \in {f \in [1..Len(cs) -> RankDraws] :
                          \A i \in 1..Len(cs) :
                            f[i] \in DrawsFor(currentState, cs[i], RankDraws)} :
         \E r \in {rankLotusChoices(heap, currentState, cs, w, N, randoms, clock)} :
            /\ heap' = r.heap
            /\ scored' = r.scored
            /\ ranked' = r.ranked
            /\ lookahead' = rankLotusChoicesWithLookahead(heap, currentState, cs, w, N, d,
                                                          randoms, clock)
            /\ candidates' = cs
            /\ topN' = N
            /\ depth' = d
            /\ weights' = <<w>>
  /\ pc' = "lookahead"
  /\ UNCHANGED <<currentState, clock, before, lotus, result, score, produced,
                 value, extra, bubbleState, currentChoices, importError, input>>

NextLook == Lookahead

SpecLook == InitLook /\ [][NextLook]_vars

\* ------------------------------------- entering-nightmare specification
\* scoring from fuller states, with every kind of attached fundamental

Repeat(k, n) == [i \in 1..n |-> k]

GearRainbow == [type |-> "Gear", quality |-> "Rainbow"]

EnterInputs ==
  {Repeat(GearWhite, n) : n \in 0..6}
  \cup {<<WhimRed, GearWhite, GearRainbow, GearWhite>>,
        <<GearRainbow, WhimRed, WhimRed>>,
        <<WhimRed, WhimRed, WhimRed, GearWhite, WhimRed, WhimRed, WhimRed>>}

EnterFundamentals ==
  {<<>>, <<LotusEffect("f-reactive", ReactiveE("fundamental_bonusOnQualityChange"), TRUE)>>}
  \cup {<<LotusEffect("f-multiply", MultiplyE(bt, m), TRUE)>> :
          bt \in {Undefined, "Gear"}, m \in {<<>>, <<1, 3>>, <<1, 6>>, <<0, 1>>}}
  \cup {<<LotusEffect("f-chance", ChanceE(bt, c), TRUE)>> :
          bt \in {Undefined, "Gear"}, c \in {<<>>, <<0>>, <<45>>, <<100>>}}

InitEnter ==
  /\ \E ks \in EnterInputs, f \in EnterFundamentals : InputState(ks, DefaultCapacity, f)
  /\ NoCall

NextEnter == Score

SpecEnter == InitEnter /\ [][NextEnter]_vars

\* ------------------------------------------------- the App's held state
\* bubbleState holds its bubbles by value: every handler builds a new array

\* the bubbles the user enters before the model stops adding
MaxHeld == 2

VALID_BUBBLE_TYPES ==
  {"Gear", "Blacksail", "Cube", "Commodity", "Netherrealm", "Fluorescent", "Whim"}

\* the values Date.now() takes
Instants == {1, 2}

\* the catalogue the App looks lotuses up in
LOTUSES ==
  {LotusEffect("add-1-bubble", AddE(<<1>>, Undefined, Undefined), FALSE),
   LotusEffect("f-multiply-gear", MultiplyE("Gear", <<1, 3>>), TRUE),
   LotusEffect("f-chance-any", ChanceE(Undefined, <<45>>), TRUE)}

LotusIds == {l.id : l \in LOTUSES} \cup {"no-such-lotus"}

\* the simulatedState rankLotusChoices returns with a lotus
simulatedState(state, l, now) ==
  LET s == [state EXCEPT !.bubbles = [i \in 1..Len(state.bubbles) |-> i]]
      r == simulateLotusEffect(state.bubbles, s, l, now)
  IN [r.state EXCEPT !.bubbles = Deref(r.heap, r.state.bubbles)]

\* mutant: the bubble is appended even when the state is full
addBubble_unguarded(state, type, quality, now) ==
  [state EXCEPT !.bubbles =
     Append(@, [id |-> <<"bubble", now>>, type |-> type, quality |-> quality])]

addBubble(state, type, quality, now) ==
  IF Len(state.bubbles) >= state.visionCapacity THEN state
  ELSE [state EXCEPT !.bubbles =
          Append(@, [id |-> <<"bubble", now>>, type |-> type, quality |-> quality])]

\* mutant: only the first bubble with the id is removed
removeBubble_first(state, id) ==
  LET bs == state.bubbles
      hits == {i \in 1..Len(bs) : bs[i].id = id}
  IN IF hits = {} THEN state
     ELSE LET i == CHOOSE x \in hits : \A y \in hits : x <= y
          IN [state EXCEPT !.bubbles = SubSeq(bs, 1, i - 1) \o SubSeq(bs, i + 1, Len(bs))]

removeBubble(state, id) ==
  LET keep(b) == b.id # id
  IN [state EXCEPT !.bubbles = SelectSeq(@, keep)]

updateBubbleQuality(state, id, newQuality) ==
  [state EXCEPT !.bubbles =
     [i \in 1..Len(@) |-> IF @[i].id = id THEN [@[i] EXCEPT !.quality = newQuality]
                          ELSE @[i]]]

startNewRun == FreshState

\* fromIndex and toIndex are positions of the array, from 1
moveBubble(state, fromIndex, toIndex) ==
  LET bs == state.bubbles
      removed == bs[fromIndex]
      rest == SubSeq(bs, 1, fromIndex - 1) \o SubSeq(bs, fromIndex + 1, Len(bs))
  IN [state EXCEPT !.bubbles =
        SubSeq(rest, 1, toIndex - 1) \o <<removed>> \o SubSeq(rest, toIndex, Len(rest))]

\* mutant: clearing resets the whole state as a new run does
clearAll_fresh(state) == FreshState

clearAll(state) == [state EXCEPT !.bubbles = <<>>]

\* what prompt() returns: json is <<the value JSON.parse returns>>, or <<>>
\* when JSON.parse throws
Text(parsed) == [text |-> "json", json |-> <<parsed>>]

\* the prompt was cancelled or left empty
Cancelled == [text |-> "", json |-> <<>>]

\* text that is no JSON
Malformed == [text |-> "not json", json |-> <<>>]

ImportFailed == "Failed to import: Invalid JSON or format"

\* The parsed value has the fields bubbleState and userWeights, each <<>>
\* when missing or falsy, else <<value>>; the bubbles of its bubbleState are
\* [kind, items]: a "list" of items, "null" (null or missing), or "object"
\* (any other value that is not an array). A held state without the field
\* bubbles stands for a bubbleState whose bubbles are null.
\* The result is the held state, the weights and the error importRun leaves.
importRun(state, w, shown, text) ==
  LET unchanged == [bubbleState |-> state, userWeights |-> w, importError |-> shown]
      failed == [bubbleState |-> state, userWeights |-> w, importError |-> ImportFailed]
      valid(b) == b.type \in VALID_BUBBLE_TYPES
  IN IF text.text = "" THEN unchanged
     ELSE IF text.json = <<>> THEN failed
     ELSE LET parsed == text.json[1]
          IN IF parsed.bubbleState = <<>> \/ parsed.userWeights = <<>> THEN failed
             ELSE LET st == parsed.bubbleState[1]
                  IN IF st.bubbles.kind = "object" THEN failed
                     ELSE [bubbleState |->
                             IF st.bubbles.kind = "list"
                             THEN [bubbles |-> SelectSeq(st.bubbles.items, valid),
                                   visionCapacity |-> st.visionCapacity,
                                   fundamental |-> st.fundamental]
                             ELSE [visionCapacity |-> st.visionCapacity,
                                   fundamental |-> st.fundamental],
                           userWeights |-> parsed.userWeights[1],
                           importError |-> ""]

\* the state the App starts from when local storage holds saved
loadSaved(saved) ==
  LET valid(b) == b.type \in VALID_BUBBLE_TYPES
      filteredBubbles == SelectSeq(saved.bubbles, valid)
  IN IF Len(saved.bubbles) > 0 /\ Len(filteredBubbles) = 0 THEN FreshState
     ELSE [saved EXCEPT !.bubbles = filteredBubbles]

\* mutant: a fundamental lotus replaces the attached fundamental
selectLotus_overwrites(state, lotusId) ==
  LET found == {l \in LOTUSES : l.id = lotusId}
  IN IF found = {} THEN state
     ELSE LET l == CHOOSE x \in found : TRUE
          IN IF l.isFundamental THEN [state EXCEPT !.fundamental = <<l>>] ELSE state

\* mutant: the simulated state of the lotus becomes the held state
selectLotus_commits(state, lotusId) ==
  LET found == {l \in LOTUSES : l.id = lotusId}
  IN IF found = {} THEN state
     ELSE LET l == CHOOSE x \in found : TRUE
          IN IF state.fundamental = <<>> /\ l.isFundamental
             THEN [state EXCEPT !.fundamental = <<l>>]
             ELSE simulatedState(state, l, 0)

\* the bubbleState selectLotus sets
selectLotus(state, lotusId) ==
  LET found == {l \in LOTUSES : l.id = lotusId}
  IN IF found = {} THEN state
     ELSE LET l == CHOOSE x \in found : TRUE
          IN IF state.fundamental = <<>> /\ l.isFundamental
             THEN [state EXCEPT !.fundamental = <<l>>]
             ELSE state

addToCurrentChoices(choices, l) ==
  IF \E i \in 1..Len(choices) : choices[i].id = l.id THEN choices
  ELSE Append(choices, l)

HeldKinds == {[id |-> <<"bubble", 1>>, type |-> t, quality |-> "White"] :
                t \in {"Gear", "Fuel"}}

HeldFundamentals == {<<>>} \cup {<<l>> : l \in {x \in LOTUSES : x.isFundamental}}

\* states found in an export or in local storage
SavedStates ==
  {[bubbles |-> bs, visionCapacity |-> cap, fundamental |-> f] :
     bs \in UNION {[1..n -> HeldKinds] : n \in 0..2},
     cap \in {1, DefaultCapacity}, f \in HeldFundamentals}

Exports ==
  {[bubbleState |-> st, userWeights |-> w] :
     st \in SavedStates, w \in {DefaultWeights, ZeroWeights}}

\* the text exportData copies, as JSON.parse reads it back
stringify(e) ==
  Text([bubbleState |-> <<[bubbles |-> [kind |-> "list", items |-> e.bubbleState.bubbles],
                          visionCapacity |-> e.bubbleState.visionCapacity,
                          fundamental |-> e.bubbleState.fundamental]>>,
        userWeights |-> <<e.userWeights>>])

\* texts with a part missing or with bubbles that are no list
BrokenTexts ==
  LET st(k) == [bubbles |-> [kind |-> k, items |-> <<>>], visionCapacity |-> 1,
                fundamental |-> <<>>]
  IN {Text([bubbleState |-> <<>>, userWeights |-> <<ZeroWeights>>]),
      Text([bubbleState |-> <<st("list")>>, userWeights |-> <<>>]),
      Text([bubbleState |-> <<st("null")>>, userWeights |-> <<ZeroWeights>>]),
      Text([bubbleState |-> <<st("object")>>, userWeights |-> <<ZeroWeights>>])}

\* what the user answers the prompt with
ImportTexts ==
  {Cancelled, Malformed} \cup BrokenTexts
  \cup {stringify(e) : e \in {x \in Exports : x.bubbleState.fundamental = <<>>}}

InitUI ==
  /\ InputState(<<>>, DefaultCapacity, <<>>)
  /\ pc = "ready"
  /\ lotus = <<>> /\ result = <<>> /\ score = 0
  /\ produced = <<>> /\ candidates = <<>> /\ topN = 0 /\ scored = <<>>
  /\ ranked = <<>> /\ value = 0 /\ extra = <<>>
  /\ weights = <<DefaultWeights>>
  /\ bubbleState \in {FreshState} \cup {loadSaved(st) : st \in SavedStates}
  /\ currentChoices = <<>>
  /\ depth = 0 /\ lookahead = <<>>
  /\ importError = "" /\ input = <<>>

\* what no handler of the App touches
Engine == <<heap, currentState, before, score, produced, candidates, topN, scored,
            ranked, value, extra, depth, lookahead>>

\* addBubble, entered until the state holds limit bubbles and whenever the
\* state is full
AddBubbleUpTo(limit) ==
  /\ Len(bubbleState.bubbles) < limit \/ Len(bubbleState.bubbles) >= bubbleState.visionCapacity
  /\ \E now \in {t \in Instants : t >= clock} :
       /\ bubbleState' = addBubble(bubbleState, "Gear", "White", now)
       /\ clock' = now
  /\ pc' = "addBubble"
  /\ lotus' = <<>> /\ result' = <<>> /\ input' = <<>>
  /\ UNCHANGED <<Engine, importError, weights, currentChoices>>

AddBubble == AddBubbleUpTo(MaxHeld)

RemoveBubble ==
  /\ \E i \in 1..Len(bubbleState.bubbles) :
       bubbleState' = removeBubble(bubbleState, bubbleState.bubbles[i].id)
  /\ pc' = "removeBubble"
  /\ lotus' = <<>> /\ result' = <<>> /\ input' = <<>>
  /\ UNCHANGED <<Engine, importError, clock, weights, currentChoices>>

\* updateBubbleQuality, on states of at most limit bubbles
UpdateBubbleQualityUpTo(limit) ==
  /\ Len(bubbleState.bubbles) <= limit
  /\ \E i \in 1..Len(bubbleState.bubbles), q \in InputQualities :
       bubbleState' = updateBubbleQuality(bubbleState, bubbleState.bubbles[i].id, q)
  /\ pc' = "updateBubbleQuality"
  /\ lotus' = <<>> /\ result' = <<>> /\ input' = <<>>
  /\ UNCHANGED <<Engine, importError, clock, weights, currentChoices>>

UpdateBubbleQuality == UpdateBubbleQualityUpTo(DefaultCapacity)

StartNewRun ==
  /\ bubbleState' = startNewRun
  /\ pc' = "startNewRun"
  /\ lotus' = <<>> /\ result' = <<>> /\ input' = <<>>
  /\ UNCHANGED <<Engine, importError, clock, weights, currentChoices>>

\* moveBubble, on states of at most limit bubbles
MoveBubbleUpTo(limit) ==
  /\ Len(bubbleState.bubbles) <= limit
  /\ \E from \in 1..Len(bubbleState.bubbles), to \in 1..Len(bubbleState.bubbles) :
       bubbleState' = moveBubble(bubbleState, from, to)
  /\ pc' = "moveBubble"
  /\ lotus' = <<>> /\ result' = <<>> /\ input' = <<>>
  /\ UNCHANGED <<Engine, importError, clock, weights, currentChoices>>

MoveBubble == MoveBubbleUpTo(DefaultCapacity)

ClearAll ==
  /\ bubbleState' = clearAll(bubbleState)
  /\ pc' = "clearAll"
  /\ lotus' = <<>> /\ result' = <<>> /\ input' = <<>>
  /\ UNCHANGED <<Engine, importError, clock, weights, currentChoices>>

\* importRun, with prompt() returning one of texts
ImportRunOf(texts) ==
  /\ \E text \in texts :
       \E r \in {importRun(bubbleState, weights[1], importError, text)} :
          /\ bubbleState' = r.bubbleState
          /\ weights' = <<r.userWeights>>
          /\ importError' = r.importError
          /\ input' = <<text>>
  /\ pc' = "importRun"
  /\ result' = <<>> /\ lotus' = <<>>
  /\ UNCHANGED <<Engine, clock, currentChoices>>

\* the exports pasted between the other events: those of a run with changed
\* weights, and that of a new run
PastedExports ==
  {e \in Exports : e.userWeights = ZeroWeights \/ e.bubbleState = FreshState}

ImportRun == ImportRunOf({stringify(e) : e \in PastedExports})

\* the timer importRun starts when it shows the error
ImportErrorExpires ==
  /\ importError # ""
  /\ importError' = ""
  /\ pc' = "setTimeout"
  /\ lotus' = <<>> /\ result' = <<>> /\ input' = <<>>
  /\ UNCHANGED <<Engine, clock, weights, bubbleState, currentChoices>>

AddToCurrentChoices ==
  /\ \E l \in LOTUSES : currentChoices' = addToCurrentChoices(currentChoices, l)
  /\ pc' = "addToCurrentChoices"
  /\ lotus' = <<>> /\ result' = <<>> /\ input' = <<>>
  /\ UNCHANGED <<Engine, importError, clock, weights, bubbleState>>

\* lotus and result record the recommendation the user clicked, the lotus
\* and the simulatedState shown with it, until the next event
SelectLotus ==
  /\ \E lotusId \in LotusIds :
       LET found == {l \in LOTUSES : l.id = lotusId}
       IN /\ bubbleState' = selectLotus(bubbleState, lotusId)
          /\ currentChoices' = IF found = {} THEN currentChoices ELSE <<>>
          /\ lotus' = IF found = {} THEN <<>> ELSE <<CHOOSE l \in found : TRUE>>
          /\ result' = IF found = {} THEN <<>>
                       ELSE <<simulatedState(bubbleState, CHOOSE l \in found : TRUE, clock)>>
  /\ pc' = "selectLotus"
  /\ input' = <<>>
  /\ UNCHANGED <<Engine, importError, clock, weights>>

NextUI ==
  \/ AddBubble
  \/ RemoveBubble
  \/ UpdateBubbleQuality
  \/ StartNewRun
  \/ MoveBubble
  \/ ClearAll
  \/ ImportRun
  \/ AddToCurrentChoices
  \/ SelectLotus

SpecUI == InitUI /\ [][NextUI]_vars


\* ---------------------------------------------------- import specification
\* importRun with every kind of answer to its prompt

InitImport == InitUI

NextImport ==
  \/ ImportRunOf(ImportTexts)
  \/ ImportErrorExpires

SpecImport == InitImport /\ [][NextImport]_vars

\* --------------------------------------------------- editing specification
\* the editing events from the state of a new run; bubbles are entered up to
\* the capacity, their qualities and order edited while they are few

InitEdit == InitUI /\ bubbleState = FreshState

NextEdit ==
  \/ AddBubbleUpTo(DefaultCapacity)
  \/ RemoveBubble
  \/ UpdateBubbleQualityUpTo(MaxHeld)
  \/ MoveBubbleUpTo(MaxHeld)
  \/ ClearAll
  \/ StartNewRun
  \/ SelectLotus

SpecEdit == InitEdit /\ [][NextEdit]_vars

\* ------------------------------------------------ identifier specification
\* the engine's simulations and the App's bubble handlers side by side; the
\* engine's runs have no weights, the App always holds a weights table

InitIds == Init \/ InitUI

NextIds ==
  \/ weights = <<>> /\ Simulate
  \/ weights # <<>> /\ AddBubble
  \/ weights # <<>> /\ RemoveBubble
  \/ weights # <<>> /\ UpdateBubbleQuality

SpecIds == InitIds /\ [][NextIds]_vars

\* ------------------------------------------------------------ properties

Rank0(q) == indexOf(q)
TopRank == Len(qualities) - 1

ResultBubbles == Deref(heap, result[1].bubbles)
InputBubbles == Deref(before, currentState.bubbles)
Refs(refs) == {refs[i] : i \in 1..Len(refs)}
Max2(a, b) == IF a >= b THEN a ELSE b

\* C1: simulateLotusEffect leaves its input state unchanged (every input
\* bubble keeps its id, type and quality, in the same order) and no bubble
\* of the returned state is the same object as a bubble of the input.
C1_Purity ==
  pc = "simulate" =>
    /\ SubSeq(heap, 1, Len(before)) = before
    /\ Deref(heap, currentState.bubbles) = InputBubbles
    /\ Refs(result[1].bubbles) \cap Refs(currentState.bubbles) = {}
    /\ result[1].visionCapacity = currentState.visionCapacity

\* an Upgrade or ChangeType simulation has changed a returned bubble
C1_Witness ==
  /\ pc = "simulate"
  /\ lotus[1].effect.type \in {"upgrade", "changeType"}
  /\ Len(result[1].bubbles) = Len(currentState.bubbles)
  /\ \E i \in 1..Len(result[1].bubbles) : ResultBubbles[i] # InputBubbles[i]

IsAddOrReplicate == lotus[1].effect.type \in {"add", "replicate"}

\* C2 as stated: after an Add or Replicate simulation the returned state has
\* at most visionCapacity bubbles, whatever the input state.
C2_Original ==
  (pc = "simulate" /\ IsAddOrReplicate) =>
    Len(result[1].bubbles) <= currentState.visionCapacity

\* C2 amended: after an Add or Replicate simulation the returned state has at
\* most max(visionCapacity, number of input bubbles) bubbles.
C2_Capacity ==
  (pc = "simulate" /\ IsAddOrReplicate) =>
    Len(result[1].bubbles) <= Max2(currentState.visionCapacity, Len(currentState.bubbles))

\* an Add that asked for more bubbles than there were free slots
C2_Witness ==
  /\ pc = "simulate"
  /\ lotus[1].effect.type = "add"
  /\ lotus[1].effect.count = <<MaxCount>>
  /\ Len(currentState.bubbles) = currentState.visionCapacity - 1
  /\ Len(result[1].bubbles) = currentState.visionCapacity

AttachedType ==
  IF result[1].fundamental = <<>> THEN Undefined
  ELSE result[1].fundamental[1].effect.type

\* C3 as stated: while scoring from a state within capacity, every state the
\* engine builds is within capacity.
C3_Original ==
  (pc = "score" /\ Len(currentState.bubbles) <= currentState.visionCapacity) =>
    \A k \in 1..Len(produced) : Len(produced[k]) <= currentState.visionCapacity

\* C3 amended: while scoring from a state within capacity, the state
\* simulateLotusEffect returns is within capacity, and so is the state after
\* applyFundamentalEffects unless the attached fundamental is
\* multiply-on-enter, whose bonus bubbles are appended without a clamp.
C3_WithinCapacity ==
  (pc = "score" /\ Len(currentState.bubbles) <= currentState.visionCapacity) =>
    /\ Len(produced[1]) <= currentState.visionCapacity
    /\ AttachedType # "fundamental_multiplyOnEnterNightmare" =>
         Len(produced[2]) <= currentState.visionCapacity

\* a Replicate scored on a state with fewer free slots than bubbles
C3_Witness ==
  /\ pc = "score"
  /\ lotus[1].effect.type = "replicate"
  /\ AttachedType # "fundamental_multiplyOnEnterNightmare"
  /\ Len(currentState.bubbles) < currentState.visionCapacity
  /\ 2 * Len(currentState.bubbles) > currentState.visionCapacity
  /\ Len(produced[2]) = currentState.visionCapacity

UpgradedCount == Min2(lotus[1].effect.count[1], Len(currentState.bubbles))

\* C4: an Upgrade by t >= 0 tiers moves a bubble of grade rank r to rank
\* r + t when that is at most the rank of Rainbow, and to Rainbow otherwise;
\* the result is one of the six grades and never below r.
C4_UpgradeClamped ==
  (pc = "simulate" /\ lotus[1].effect.type = "upgrade") =>
    /\ Len(ResultBubbles) = Len(InputBubbles)
    /\ \A i \in 1..UpgradedCount :
         LET r == Rank0(InputBubbles[i].quality)
             t == lotus[1].effect.tiers
             new == ResultBubbles[i].quality
         IN /\ new \in BubbleQuality
            /\ Rank0(new) >= r
            /\ Rank0(new) <= TopRank
            /\ (r + t <= TopRank) => Rank0(new) = r + t
            /\ (r + t > TopRank) => new = "Rainbow"

\* a White bubble upgraded by 100 tiers is Rainbow
C4_Witness ==
  /\ pc = "simulate"
  /\ lotus[1].effect.type = "upgrade"
  /\ lotus[1].effect.tiers = 100
  /\ Len(InputBubbles) >= 1
  /\ InputBubbles[1].quality = "White"
  /\ ResultBubbles[1].quality = "Rainbow"

IsPlainComplex == lotus[1].effect.type = "complex" /\ ~lotus[1].isFundamental

\* C5 as stated: the score of a Complex lotus that is not flagged
\* isFundamental is 0, with or without a fundamental attached to the state.
C5_Original == (pc = "score" /\ IsPlainComplex) => score = 0

\* C5 amended: the score of a Complex lotus that is not flagged isFundamental
\* is 0 when the state has no fundamental attached, or one that is neither
\* multiply-on-enter nor chance-upgrade-on-enter.
C5_NoopScoresZero ==
  (pc = "score" /\ IsPlainComplex
   /\ AttachedType \notin {"fundamental_multiplyOnEnterNightmare",
                           "fundamental_chanceUpgradeOnEnterNightmare"}) =>
    score = 0

\* a Complex lotus scored on a non-empty state whose value is not 0
C5_Witness ==
  /\ pc = "score"
  /\ IsPlainComplex
  /\ currentState.fundamental = <<>>
  /\ weights = <<DefaultWeights>>
  /\ Len(currentState.bubbles) = MaxLen
  /\ score = 0

Positions(entries) == {entries[k].pos : k \in 1..Len(entries)}

\* C6: rankLotusChoices returns min(topN, number of candidates) entries, each
\* made from one candidate, no candidate twice, scores non-increasing, and
\* no omitted candidate scores higher than the last returned entry.
C6_RankOrder ==
  pc = "rank" =>
    /\ Len(ranked) = Min2(topN, Len(candidates))
    /\ \A k \in 1..Len(ranked) :
         /\ ranked[k].pos \in 1..Len(candidates)
         /\ ranked[k].lotus = candidates[ranked[k].pos]
         /\ ranked[k] = scored[ranked[k].pos]
    /\ \A j, k \in 1..Len(ranked) : j # k => ranked[j].pos # ranked[k].pos
    /\ \A k \in 1..(Len(ranked) - 1) : ranked[k].score >= ranked[k + 1].score
    /\ \A i \in 1..Len(scored) :
         (i \notin Positions(ranked) /\ Len(ranked) > 0) =>
           scored[i].score <= ranked[Len(ranked)].score

\* a ranking that reordered the candidates and cut a lower-scoring one off
C6_Witness ==
  /\ pc = "rank"
  /\ Len(candidates) = MaxCands
  /\ topN = MaxCands - 1
  /\ Len(ranked) = MaxCands - 1
  /\ ranked[1].pos = MaxCands
  /\ \E i \in 1..Len(scored) :
       i \notin Positions(ranked) /\ scored[i].score < ranked[Len(ranked)].score

PlaceOf(p) == CHOOSE k \in 1..Len(ranked) : ranked[k].pos = p

\* C7: rankLotusChoices is stable: of two candidates with equal scores the
\* later one is returned only if the earlier one is, and then after it.
C7_Stable ==
  pc = "rank" =>
    \A i, j \in 1..Len(scored) :
      (i < j /\ scored[i].score = scored[j].score /\ j \in Positions(ranked)) =>
        /\ i \in Positions(ranked)
        /\ PlaceOf(i) < PlaceOf(j)

\* a tie across the topN cut: the earlier candidate is kept, the later is not
C7_Witness ==
  /\ pc = "rank"
  /\ \E i, j \in 1..Len(scored) :
       /\ i < j
       /\ scored[i].score = scored[j].score
       /\ i \in Positions(ranked)
       /\ j \notin Positions(ranked)
       /\ PlaceOf(i) = Len(ranked)
  /\ \E i, j \in 1..Len(scored) :
       /\ i < j
       /\ scored[i].score = scored[j].score
       /\ {i, j} \subseteq Positions(ranked)

\* C8: scoreLotusChoice(S, L, W) is the value of
\* applyFundamentalEffects(simulateLotusEffect(S, L)) minus the value S had
\* before the call.
C8_ScoreIsDelta ==
  pc = "score" =>
    \E random \in DrawsFor(currentState, lotus[1], RandomDraws) :
      LET sim == simulateLotusEffect(before, currentState, lotus[1], clock)
          fin == applyFundamentalEffects(sim.heap, sim.state, random, clock)
      IN /\ Deref(fin.heap, fin.state.bubbles) = ResultBubbles
         /\ score = calculateStateValue(fin.heap, fin.state, weights[1])
                    - calculateStateValue(before, currentState, weights[1])

\* a score to which both the lotus and the attached fundamental contributed
C8_Witness ==
  /\ pc = "score"
  /\ lotus[1].effect.type = "add"
  /\ AttachedType = "fundamental_multiplyOnEnterNightmare"
  /\ Len(produced[1]) > Len(InputBubbles)
  /\ Len(produced[2]) > Len(produced[1])
  /\ Len(InputBubbles) > 0
  /\ score > 0

RECURSIVE SumSet(_, _)
SumSet(S, f) ==
  IF S = {} THEN 0
  ELSE LET x == CHOOSE y \in S : TRUE IN f[x] + SumSet(S \ {x}, f)

\* the value of bs counted kind by kind
ValueByKind(bs, w) ==
  LET kinds == BubbleType \X BubbleQuality
      n == [k \in kinds |->
              Cardinality({i \in 1..Len(bs) : bs[i].type = k[1] /\ bs[i].quality = k[2]})]
  IN SumSet(kinds, [k \in kinds |-> n[k] * w.qualityMultipliers[k[2]] * w.typeWeights[k[1]]])

NonNegative(w) ==
  /\ \A q \in BubbleQuality : w.qualityMultipliers[q] >= 0
  /\ \A t \in BubbleType : w.typeWeights[t] >= 0

\* C9: calculateStateValue is the sum of qualityMultipliers[quality] *
\* typeWeights[type] over the bubbles: 0 for no bubbles, >= 0 when no weight
\* is negative, and under the default weights strictly larger with any one
\* bubble appended.
C9_Value ==
  pc = "value" =>
    /\ value = ValueByKind(InputBubbles, weights[1])
    /\ Len(InputBubbles) = 0 => value = 0
    /\ NonNegative(weights[1]) => value >= 0
    /\ weights[1] = DefaultWeights => extra[2] > value

\* a non-empty state valued under the default weights, and again with a
\* White bubble appended
C9_Witness ==
  /\ pc = "value"
  /\ weights = <<DefaultWeights>>
  /\ Len(InputBubbles) = MaxLen
  /\ extra[1].quality = "White"
  /\ value > 0
  /\ extra[2] = value + 10

BonusBubbles == SubSeq(produced[2], Len(produced[1]) + 1, Len(produced[2]))

TargetType ==
  LET bt == result[1].fundamental[1].effect.bubbleType
  IN IF bt = Undefined THEN "Whim" ELSE bt

ScoredWithMultiply == pc = "score" /\ AttachedType = "fundamental_multiplyOnEnterNightmare"

Attached == result[1].fundamental[1].effect

InTarget(b) == Attached.bubbleType = Undefined \/ b.type = Attached.bubbleType

\* T: the bubbles of the simulated state that match the fundamental's filter
TargetCount == Cardinality({i \in 1..Len(produced[1]) : InTarget(produced[1][i])})

\* C11: a multiply-on-enter fundamental appends floor(T * multiplier) bonus
\* bubbles, and floor(T / 3) when the effect carries no multiplier.
C11_BonusCount ==
  ScoredWithMultiply =>
    Len(BonusBubbles) =
      IF Attached.multiplier = <<>> THEN TargetCount \div 3
      ELSE (TargetCount * Attached.multiplier[1]) \div Attached.multiplier[2]

ScoredWithCertainUpgrade ==
  /\ pc = "score"
  /\ AttachedType = "fundamental_chanceUpgradeOnEnterNightmare"
  /\ Attached.chance = <<100>>

OneTierUp(q) == IF q = "Rainbow" THEN "Rainbow" ELSE qualities[indexOf(q) + 2]

\* C12: a chance-upgrade-on-enter fundamental with chance 1.0 raises every
\* bubble of its target set by one tier (Rainbow stays Rainbow) on every run,
\* and changes no other bubble, nor the count, nor the order.
C12_CertainUpgrade ==
  ScoredWithCertainUpgrade =>
    /\ Len(produced[2]) = Len(produced[1])
    /\ \A i \in 1..Len(produced[1]) :
         /\ produced[2][i].id = produced[1][i].id
         /\ produced[2][i].type = produced[1][i].type
         /\ produced[2][i].quality =
              IF InTarget(produced[1][i]) THEN OneTierUp(produced[1][i].quality)
              ELSE produced[1][i].quality

\* a Gear-filtered certain upgrade on a state that holds a White Gear, a
\* Rainbow Gear and a Whim bubble
C12_Witness ==
  /\ ScoredWithCertainUpgrade
  /\ Attached.bubbleType = "Gear"
  /\ lotus[1].effect.type = "complex"
  /\ Len(produced[1]) >= 3
  /\ \E i, j, k \in 1..Len(produced[1]) :
       /\ produced[1][i].type = "Whim" /\ produced[2][i] = produced[1][i]
       /\ produced[1][j] = [produced[2][j] EXCEPT !.quality = "White"]
       /\ produced[2][j].type = "Gear" /\ produced[2][j].quality = "Blue"
       /\ produced[1][k].type = "Gear" /\ produced[1][k].quality = "Rainbow"
       /\ produced[2][k] = produced[1][k]


SimulatedEffect == lotus[1].effect
InputLen == Len(currentState.bubbles)
Appended == SubSeq(ResultBubbles, InputLen + 1, Len(ResultBubbles))

\* the count an Add effect asks for: the fixed count, or the floored mean
ResolvedCount ==
  IF Len(SimulatedEffect.count) = 2
  THEN (SimulatedEffect.count[1] + SimulatedEffect.count[2]) \div 2
  ELSE SimulatedEffect.count[1]

\* C16: an Add effect with resolved count c appends
\* max(0, min(c, capacity - length)) bubbles at the end and leaves the
\* existing bubbles and their order unchanged.
C16_AddCount ==
  (pc = "simulate" /\ SimulatedEffect.type = "add") =>
    LET k == Max2(0, Min2(ResolvedCount, currentState.visionCapacity - InputLen))
    IN /\ Len(ResultBubbles) = InputLen + k
       /\ SubSeq(ResultBubbles, 1, InputLen) = InputBubbles
       /\ k = 0 => ResultBubbles = InputBubbles

\* a range Add with room for its mean
C16_Witness ==
  /\ pc = "simulate"
  /\ SimulatedEffect.type = "add"
  /\ SimulatedEffect.count = <<1, MaxCount + 1>>
  /\ InputLen >= 1
  /\ Len(Appended) = (MaxCount + 2) \div 2
  /\ Len(Appended) > 1

\* the highest grade among bs, White when bs is empty
MaxGrade(bs) ==
  CHOOSE q \in BubbleQuality :
    /\ q = "White" \/ \E i \in 1..Len(bs) : bs[i].quality = q
    /\ \A i \in 1..Len(bs) : indexOf(bs[i].quality) <= indexOf(q)

ExpectedGrade ==
  LET spec == SimulatedEffect.quality
  IN CASE spec = Undefined -> "White"
       [] spec = "highest" -> MaxGrade(InputBubbles)
       [] spec = "purple_or_better" -> "Purple"
       [] spec = "blue_or_better" -> "Blue"
       [] OTHER -> spec

ExpectedType ==
  IF SimulatedEffect.bubbleType \in {Undefined, "random"} THEN "Whim"
  ELSE SimulatedEffect.bubbleType

\* C17: every bubble one Add effect appends has the grade its filter resolves
\* to (exact grade; highest grade of the input, White if empty; Purple for
\* purple_or_better; Blue for blue_or_better; White without filter) and the
\* explicit type, or Whim without one or for "random".
C17_AddKind ==
  (pc = "simulate" /\ SimulatedEffect.type = "add") =>
    \A i \in 1..Len(Appended) :
      Appended[i].quality = ExpectedGrade /\ Appended[i].type = ExpectedType

\* two bubbles added at the highest grade of an input whose first bubble is
\* White and whose second is Red
C17_Witness ==
  /\ pc = "simulate"
  /\ SimulatedEffect.type = "add"
  /\ SimulatedEffect.quality = "highest"
  /\ InputLen = 2
  /\ InputBubbles[1].quality = "White"
  /\ InputBubbles[2].quality = "Red"
  /\ Len(Appended) >= 1
  /\ Appended[1].quality = "Red"
  /\ Appended[1].type = "Whim"

\* C18: a Remove effect with count n drops the first min(n, length) bubbles
\* and keeps the rest unchanged and in order, whatever its target policy.
C18_RemoveFront ==
  (pc = "simulate" /\ SimulatedEffect.type = "remove") =>
    LET k == Min2(SimulatedEffect.count[1], InputLen)
    IN /\ Len(ResultBubbles) = InputLen - k
       /\ ResultBubbles = SubSeq(InputBubbles, k + 1, InputLen)
       /\ InputLen = 0 => ResultBubbles = <<>>

\* a "lowest" Remove that dropped a Red first bubble and kept a White one
C18_Witness ==
  /\ pc = "simulate"
  /\ SimulatedEffect.type = "remove"
  /\ SimulatedEffect.target = "lowest"
  /\ InputLen = 2
  /\ InputBubbles[1].quality = "Red"
  /\ InputBubbles[2].quality = "White"
  /\ ResultBubbles = <<InputBubbles[2]>>

\* C19: an Upgrade effect with count n and tiers t raises the grade of the
\* first min(n, length) bubbles by t tiers, capped at Rainbow, and changes
\* nothing else: count, order, ids, types and the other grades stay.
C19_UpgradeFrame ==
  (pc = "simulate" /\ SimulatedEffect.type = "upgrade") =>
    LET k == Min2(SimulatedEffect.count[1], InputLen)
    IN /\ Len(ResultBubbles) = InputLen
       /\ \A i \in 1..InputLen :
            /\ ResultBubbles[i].id = InputBubbles[i].id
            /\ ResultBubbles[i].type = InputBubbles[i].type
            /\ i > k => ResultBubbles[i].quality = InputBubbles[i].quality
            /\ i <= k =>
                 indexOf(ResultBubbles[i].quality) =
                   Min2(indexOf(InputBubbles[i].quality) + SimulatedEffect.tiers, TopRank)

\* an "all" Upgrade of count 1 that raised the first bubble only
C19_Witness ==
  /\ pc = "simulate"
  /\ SimulatedEffect.type = "upgrade"
  /\ SimulatedEffect.target = "all"
  /\ InputLen = 2
  /\ InputBubbles[1].quality = "White"
  /\ InputBubbles[2].quality = "White"
  /\ ResultBubbles[1].quality = "Blue"
  /\ ResultBubbles[2].quality = "White"

\* C20: a Replicate effect with count n appends
\* k = max(0, min(n, length, capacity - length)) bubbles, the i-th a copy
\* (type and grade) of the i-th input bubble, and leaves the input bubbles
\* in place.
C20_Replicate ==
  (pc = "simulate" /\ SimulatedEffect.type = "replicate") =>
    LET k == Max2(0, Min2(Min2(SimulatedEffect.count[1], InputLen),
                          currentState.visionCapacity - InputLen))
    IN /\ Len(ResultBubbles) = InputLen + k
       /\ SubSeq(ResultBubbles, 1, InputLen) = InputBubbles
       /\ \A i \in 1..k :
            /\ Appended[i].type = InputBubbles[i].type
            /\ Appended[i].quality = InputBubbles[i].quality
       /\ (InputLen = 0 \/ InputLen = currentState.visionCapacity) =>
            ResultBubbles = InputBubbles

\* two different bubbles replicated in order
C20_Witness ==
  /\ pc = "simulate"
  /\ SimulatedEffect.type = "replicate"
  /\ InputLen = 2
  /\ InputBubbles[1].type # InputBubbles[2].type
  /\ Len(Appended) = 2
  /\ Appended[2].type = InputBubbles[2].type
  /\ Appended[2].id # InputBubbles[2].id

\* C13: once bubbleState.fundamental is set, no selectLotus, addBubble,
\* removeBubble, updateBubbleQuality, moveBubble or clearAll changes it; only
\* startNewRun and importRun clear or replace it.
C13_FirstFundamentalWins ==
  [][(bubbleState.fundamental # <<>> /\ pc' \notin {"startNewRun", "importRun"})
       => bubbleState'.fundamental = bubbleState.fundamental]_vars

\* a second, different fundamental was selected and the first is still attached
C13_Witness ==
  /\ pc = "selectLotus"
  /\ lotus # <<>>
  /\ lotus[1].isFundamental
  /\ bubbleState.fundamental # <<>>
  /\ bubbleState.fundamental[1].id # lotus[1].id

\* C14 as stated: after selectLotus the held bubbles are the bubbles of the
\* recommendation's simulatedState.
C14_Original ==
  (pc = "selectLotus" /\ lotus # <<>>) => bubbleState.bubbles = result[1].bubbles

\* C14: selectLotus leaves the held bubbles and the capacity as they were; it
\* attaches the lotus as the fundamental when the lotus is a fundamental and
\* none is attached, and changes nothing else of bubbleState.
C14_SelectKeepsBubbles ==
  [][pc' = "selectLotus" =>
       /\ bubbleState'.bubbles = bubbleState.bubbles
       /\ bubbleState'.visionCapacity = bubbleState.visionCapacity
       /\ bubbleState'.fundamental =
            IF bubbleState.fundamental = <<>> /\ lotus' # <<>> /\ lotus'[1].isFundamental
            THEN lotus'
            ELSE bubbleState.fundamental]_vars

\* an Add lotus was selected from a state with room: the simulated state
\* holds one bubble more than the held state
C14_Witness ==
  /\ pc = "selectLotus"
  /\ lotus # <<>>
  /\ lotus[1].effect.type = "add"
  /\ Len(bubbleState.bubbles) = 1
  /\ Len(result[1].bubbles) = 2

\* C15: with depth 1 every entry of the lookahead ranker carries a
\* lookaheadScore equal to its score, which is the score the plain ranker
\* gives the same candidate, and both rankers return the same candidates in
\* the same order.
C15_DepthOne ==
  (pc = "lookahead" /\ depth = 1) =>
    /\ Len(lookahead) = Len(ranked)
    /\ \A k \in 1..Len(lookahead) :
         /\ lookahead[k].lookaheadScore[1] = lookahead[k].score * lookahead[k].lookaheadScore[2]
         /\ lookahead[k].pos = ranked[k].pos
         /\ lookahead[k].lotus = ranked[k].lotus
         /\ lookahead[k].score = ranked[k].score

\* three candidates ranked at depth 1, not in the order they were given
C15_Witness ==
  /\ pc = "lookahead"
  /\ depth = 1
  /\ Len(lookahead) = 3
  /\ lookahead[1].pos = 3
  /\ lookahead[1].score > lookahead[2].score
  /\ lookahead[2].score > lookahead[3].score

\* C21: a ChangeType effect with count n sets the type of the first
\* min(n, length) bubbles to its destination type, raises exactly those
\* bubbles by one tier (Rainbow stays) when upgradeAfter is set and changes
\* no grade otherwise; count, order and the other bubbles are unchanged.
C21_ChangeType ==
  (pc = "simulate" /\ SimulatedEffect.type = "changeType") =>
    LET k == Min2(SimulatedEffect.count[1], InputLen)
    IN /\ Len(ResultBubbles) = InputLen
       /\ \A i \in 1..InputLen :
            /\ ResultBubbles[i].id = InputBubbles[i].id
            /\ i > k => ResultBubbles[i] = InputBubbles[i]
            /\ i <= k =>
                 /\ ResultBubbles[i].type = SimulatedEffect.newType
                 /\ ResultBubbles[i].quality =
                      IF SimulatedEffect.upgradeAfter
                      THEN OneTierUp(InputBubbles[i].quality)
                      ELSE InputBubbles[i].quality

\* the first of two White Gear bubbles became a Blue Fuel bubble
C21_Witness ==
  /\ pc = "simulate"
  /\ SimulatedEffect.type = "changeType"
  /\ SimulatedEffect.upgradeAfter
  /\ InputLen = 2
  /\ \A i \in 1..2 : InputBubbles[i].type = "Gear" /\ InputBubbles[i].quality = "White"
  /\ SimulatedEffect.count = <<1>>
  /\ ResultBubbles[1].type = "Fuel"
  /\ ResultBubbles[1].quality = "Blue"
  /\ ResultBubbles[2].type = "Gear"
  /\ ResultBubbles[2].quality = "White"

\* C22: for a standing-effect, Complex or unrecognised effect
\* simulateLotusEffect returns the input's bubbles and capacity; the returned
\* fundamental is the lotus when it is flagged isFundamental and the input's
\* fundamental otherwise.
C22_DefaultCase ==
  (pc = "simulate" /\ SimulatedEffect.type \notin StructuralTypes) =>
    /\ ResultBubbles = InputBubbles
    /\ result[1].visionCapacity = currentState.visionCapacity
    /\ result[1].fundamental =
         IF lotus[1].isFundamental THEN lotus ELSE currentState.fundamental

\* a standing effect that is not flagged, simulated from a state with
\* bubbles and a fundamental of its own
C22_Witness ==
  /\ pc = "simulate"
  /\ SimulatedEffect.type = "fundamental_multiplyOnEnterNightmare"
  /\ ~lotus[1].isFundamental
  /\ InputLen = MaxLen
  /\ currentState.fundamental # <<>>
  /\ result[1].fundamental = currentState.fundamental
  /\ result[1].fundamental # lotus

SecondFundamental ==
  /\ pc \in {"simulate", "score"}
  /\ currentState.fundamental # <<>>
  /\ lotus[1].isFundamental
  /\ lotus[1].effect.type \notin StructuralTypes

\* C23: the engine does not keep the first fundamental: from a state with a
\* fundamental, a flagged lotus with a standing or Complex effect is returned
\* as the fundamental by simulateLotusEffect, and scoreLotusChoice applies
\* the effect of that lotus, not of the fundamental the state had.
C23_EngineOverwrites ==
  SecondFundamental =>
    /\ result[1].fundamental = lotus
    /\ pc = "score" =>
         \E random \in DrawsFor(currentState, lotus[1], RandomDraws) :
           LET fin == applyFundamentalEffects(before,
                                              [currentState EXCEPT !.fundamental = lotus],
                                              random, clock)
           IN /\ Deref(fin.heap, fin.state.bubbles) = ResultBubbles
              /\ score = calculateStateValue(fin.heap, fin.state, weights[1])
                         - calculateStateValue(before, currentState, weights[1])

\* a state whose fundamental would have appended a bonus bubble, scored with
\* a certain chance-upgrade lotus: both bubbles upgraded, none appended
C23_Witness ==
  /\ pc = "score"
  /\ currentState.fundamental # <<>>
  /\ currentState.fundamental[1].effect.type = "fundamental_multiplyOnEnterNightmare"
  /\ currentState.fundamental[1].effect.bubbleType = Undefined
  /\ lotus[1].isFundamental
  /\ lotus[1].effect.type = "fundamental_chanceUpgradeOnEnterNightmare"
  /\ InputLen = 2
  /\ Len(ResultBubbles) = 2
  /\ \A i \in 1..2 : ResultBubbles[i].quality = OneTierUp(InputBubbles[i].quality)
  /\ InputBubbles[1].quality = "White"

\* C30: for every lotus flagged isFundamental, whatever its effect type,
\* simulateLotusEffect returns a state whose fundamental is that lotus.
C30_FlaggedIsAttached ==
  (pc = "simulate" /\ lotus[1].isFundamental) => result[1].fundamental = lotus

\* C26: a supplied value of 0 is used as given: a chance-upgrade-on-enter
\* fundamental with chance 0 changes no bubble on any run, and a
\* multiply-on-enter fundamental with multiplier 0 appends no bonus bubble.
C26_ZeroIsUsed ==
  /\ (/\ pc = "score"
      /\ AttachedType = "fundamental_chanceUpgradeOnEnterNightmare"
      /\ Attached.chance = <<0>>) => produced[2] = produced[1]
  /\ (ScoredWithMultiply /\ Attached.multiplier # <<>> /\ Attached.multiplier[1] = 0)
       => Len(BonusBubbles) = 0

\* C27: every entry of rankLotusChoices is self-consistent: its score is the
\* value of its simulatedState minus the value of the current state.
C27_EntryConsistent ==
  pc = "rank" =>
    \A k \in 1..Len(scored) :
      scored[k].score =
        calculateStateValue(heap, scored[k].simulatedState, weights[1])
        - calculateStateValue(heap, currentState, weights[1])

\* C25: from any held state startNewRun leaves no bubbles, capacity 10 and no
\* fundamental, so that a fundamental lotus selected next is attached;
\* clearAll removes the bubbles and keeps capacity and fundamental.
C25_NewRunAndClear ==
  [][/\ pc' = "startNewRun" => bubbleState' = FreshState
     /\ (pc = "startNewRun" /\ pc' = "selectLotus" /\ lotus' # <<>>
         /\ lotus'[1].isFundamental) => bubbleState'.fundamental = lotus'
     /\ pc' = "clearAll" =>
          /\ bubbleState'.bubbles = <<>>
          /\ bubbleState'.visionCapacity = bubbleState.visionCapacity
          /\ bubbleState'.fundamental = bubbleState.fundamental]_vars

\* clearAll has emptied a state that keeps a capacity other than the default
\* and an attached fundamental, both of which a new run would have reset
C25_Witness ==
  /\ pc = "clearAll"
  /\ bubbleState.bubbles = <<>>
  /\ bubbleState.visionCapacity # DefaultCapacity
  /\ bubbleState.fundamental # <<>>

Ids(bs) == {bs[i].id : i \in 1..Len(bs)}

\* the ids one Add or one Replicate call gave the bubbles it created
CreatedIds ==
  pc = "simulate" =>
    /\ SimulatedEffect.type = "add" =>
         \A k \in 1..Len(Appended) : Appended[k].id = <<"bubble", clock, k - 1>>
    /\ SimulatedEffect.type = "replicate" =>
         \A k \in 1..Len(Appended) : Appended[k].id = <<"bubble-replicate", clock, k - 1>>
    /\ SimulatedEffect.type \in {"add", "replicate"} =>
         \A j, k \in 1..Len(Appended) : j # k => Appended[j].id # Appended[k].id

\* C24: ids are made from the clock, so two addBubble calls in the same
\* instant give two held bubbles one id; the ids one Add call or one
\* Replicate call creates are the clock and the loop index, pairwise
\* distinct; removeBubble(id) removes every held bubble with that id and
\* updateBubbleQuality(id, q) changes every one of them.
C24_IdCollisions ==
  [][/\ CreatedIds'
     /\ pc' = "addBubble" =>
          \/ bubbleState' = bubbleState
          \/ /\ Len(bubbleState'.bubbles) = Len(bubbleState.bubbles) + 1
             /\ bubbleState'.bubbles[Len(bubbleState'.bubbles)].id = <<"bubble", clock'>>
     /\ pc' = "removeBubble" =>
          \E i \in 1..Len(bubbleState.bubbles) :
            /\ bubbleState.bubbles[i].id \notin Ids(bubbleState'.bubbles)
            /\ \E others \in {SelectSeq(bubbleState.bubbles,
                                        LAMBDA b : b.id # bubbleState.bubbles[i].id)} :
                 bubbleState'.bubbles = others
     /\ pc' = "updateBubbleQuality" =>
          \E i \in 1..Len(bubbleState.bubbles), q \in BubbleQuality :
            /\ Len(bubbleState'.bubbles) = Len(bubbleState.bubbles)
            /\ \A j \in 1..Len(bubbleState.bubbles) :
                 bubbleState'.bubbles[j] =
                   IF bubbleState.bubbles[j].id = bubbleState.bubbles[i].id
                   THEN [bubbleState.bubbles[j] EXCEPT !.quality = q]
                   ELSE bubbleState.bubbles[j]]_vars

\* two held bubbles with one id, both entered White, both changed by one
\* updateBubbleQuality
C24_Witness ==
  /\ pc = "updateBubbleQuality"
  /\ Len(bubbleState.bubbles) = 2
  /\ bubbleState.bubbles[1].id = bubbleState.bubbles[2].id
  /\ bubbleState.bubbles[1].quality # "White"
  /\ bubbleState.bubbles[2].quality = bubbleState.bubbles[1].quality

\* C28: from the state of a new run, whatever addBubble, removeBubble,
\* updateBubbleQuality, moveBubble, clearAll, startNewRun and selectLotus
\* events follow, the state holds at most visionCapacity bubbles, and
\* addBubble on a full state leaves the state as it was.
C28_WithinCapacity ==
  [][/\ Len(bubbleState'.bubbles) <= bubbleState'.visionCapacity
     /\ (pc' = "addBubble"
         /\ Len(bubbleState.bubbles) >= bubbleState.visionCapacity)
          => bubbleState' = bubbleState]_vars

\* a full state on which addBubble was called at the second instant and
\* which holds no bubble of that instant
C28_Witness ==
  /\ pc = "addBubble"
  /\ clock = 2
  /\ Len(bubbleState.bubbles) = DefaultCapacity
  /\ bubbleState.visionCapacity = DefaultCapacity
  /\ \A i \in 1..Len(bubbleState.bubbles) : bubbleState.bubbles[i].id = <<"bubble", 1>>

\* the texts C29 says importRun must reject
Rejected(text) ==
  \/ text.json = <<>>
  \/ text.json[1].bubbleState = <<>>
  \/ text.json[1].userWeights = <<>>
  \/ text.json[1].bubbleState[1].bubbles.kind # "list"

\* C29: importRun fails atomically: for text that is no JSON, that lacks
\* bubbleState or userWeights, or whose bubbles are no list, neither
\* bubbleState nor userWeights changes and an import error is shown; otherwise
\* both are replaced by the imported ones, the bubbles filtered to the seven
\* valid types.
C29_ImportAtomic ==
  [][(pc' = "importRun" /\ input'[1] # Cancelled) =>
       IF Rejected(input'[1])
       THEN /\ bubbleState' = bubbleState
            /\ weights' = weights
            /\ importError' # ""
       ELSE /\ weights' = input'[1].json[1].userWeights
            /\ bubbleState'.visionCapacity = input'[1].json[1].bubbleState[1].visionCapacity
            /\ bubbleState'.fundamental = input'[1].json[1].bubbleState[1].fundamental
            /\ \A i \in 1..Len(bubbleState'.bubbles) :
                 bubbleState'.bubbles[i].type \in VALID_BUBBLE_TYPES]_vars

====
